---- MODULE Spec2Model ----
(***************************************************************************)
(* The plugin handle of minnie-janus (src/src/session-stamp.js, the        *)
(* BasePlugin behaviour: attach/detach, send and the typed senders) as a   *)
(* state machine, together with the part of the Session it talks to        *)
(* (Session.send, the pending-transaction registry and the gateway's       *)
(* replies), which is modelled from the specification.                     *)
(*                                                                         *)
(* JavaScript values are modelled as strings and records: "null" and       *)
(* "undefined" are the two JS values, a JS object is a record, a missing   *)
(* property is a missing record field.  An async method runs synchronously *)
(* up to its first await (one action per call); the code after the await   *)
(* runs when the awaited promise settles, in the same run-to-completion    *)
(* step as the delivery that settles it (one action per delivery).         *)
(***************************************************************************)
EXTENDS Integers, Sequences, FiniteSets, TLC

\* Bound: the number of handle method calls in one behaviour.
MaxCalls == 3
\* Bound: the number of handle method calls in a behaviour of FairSpec.
MaxSettlingCalls == 2

Null == "null"
Undefined == "undefined"

\* Input domains of the method calls.
Sessions == {"s1", "s2"}
HandleIds == {"h1", "h2"}
\* Another handle of the same sessions, attached under an id of its own.
OtherId == "h3"
Bodies == {Undefined, "b1"}
Jseps == {Undefined, Null, "offer"}
Candidates == {Null, "c1"}
Objs == { [janus |-> "message", body |-> "b1"],
          [janus |-> "trickle", candidate |-> "c1", handle_id |-> "h9"] }
Loggers == {"noop", "injected"}
\* `log` is read by the typed senders but is no property of the behaviour and
\* is not set by init: it is undefined unless the composing object supplies it.
Logs == {Undefined, "composed"}

VARIABLES
    session,       \* this.session
    id,            \* this.id
    attached,      \* this.attached
    logger,        \* this.logger
    log,           \* this.log
    transactions,  \* Session: the pending transactions of each session
    txCounter,     \* Session: the last transaction identifier issued
    handles,       \* Session: the attached-handle table of each session
    ncalls,        \* number of handle method calls made so far
    hist,          \* history: the latest attach() call and fulfilled request
    last           \* what the most recent step did (calls, messages, hooks)

vars == <<session, id, attached, logger, log, transactions, txCounter, handles,
          ncalls, hist, last>>

\* The properties every handle starts with.
properties ==
    [session |-> Null, id |-> Null, name |-> "unset", label |-> "unset",
     attached |-> FALSE]

\* The handle as the methods see it.
this == [session |-> session, id |-> id, attached |-> attached, log |-> log]

----------------------------------------------------------------------------
(* JavaScript helpers *)

\* { ...obj, key: value }
Spread(obj, key, value) ==
    [k \in (DOMAIN obj) \cup {key} |-> IF k = key THEN value ELSE obj[k]]

\* if (v): undefined and null are falsy, the other values used here truthy.
Truthy(v) == v \notin {Undefined, Null}

\* A call that threw before reaching Session.send.
Threw(h) == [session |-> h.session, handed |-> <<>>, thrown |-> TRUE]

\* this.session.send(msg): a TypeError when this.session is null.
SessionSendCall(h, msg) ==
    IF h.session = Null
    THEN Threw(h)
    ELSE [session |-> h.session,
          handed |-> <<[session |-> h.session, msg |-> msg]>>,
          thrown |-> FALSE]

TypeError == [status |-> "rejected", error |-> "TypeError"]
NotCalled == [status |-> "notcalled"]

----------------------------------------------------------------------------
(* The methods, up to their first await *)

\* Mutant of attachCall: this.session = this.session || session, a session
\* already bound is kept.
attachCall_keepSession(h, s) ==
    SessionSendCall([h EXCEPT !.session = IF h.session = Null THEN s ELSE @],
                    [janus |-> "attach", plugin |-> properties.name])

attachCall(h, s) ==
    SessionSendCall([h EXCEPT !.session = s],
                    [janus |-> "attach", plugin |-> properties.name])

\* Mutant of sendCall: { handle_id: this.id, ...obj }, the spread written last.
sendCall_spreadLast(h, obj) ==
    SessionSendCall(h, IF "handle_id" \in DOMAIN obj
                       THEN obj
                       ELSE Spread(obj, "handle_id", h.id))

\* Mutant of sendCall: an attachment check in front of the send.
sendCall_guarded(h, obj) ==
    IF ~h.attached
    THEN Threw(h)
    ELSE SessionSendCall(h, Spread(obj, "handle_id", h.id))

sendCall(h, obj) == SessionSendCall(h, Spread(obj, "handle_id", h.id))

detachCall(h) == sendCall(h, [janus |-> "detach"])

\* body = {} : the default applies to an undefined argument.
DefaultBody(body) == IF body = Undefined THEN "{}" ELSE body

sendMessageMsg(body, jsep) ==
    IF Truthy(jsep)
    THEN [janus |-> "message", body |-> DefaultBody(body), jsep |-> jsep]
    ELSE [janus |-> "message", body |-> DefaultBody(body)]

\* this.log.debug(...) throws a TypeError when this.log is undefined.
sendMessageCall(h, body, jsep) ==
    IF h.log = Undefined THEN Threw(h) ELSE sendCall(h, sendMessageMsg(body, jsep))

\* Mutant of sendJsepCall: this.sendMessage(jsep), the jsep passed as the body.
sendJsepCall_asBody(h, jsep) ==
    IF h.log = Undefined THEN Threw(h) ELSE sendMessageCall(h, jsep, Undefined)

sendJsepCall(h, jsep) ==
    IF h.log = Undefined THEN Threw(h) ELSE sendMessageCall(h, "{}", jsep)

sendTrickleCall(h, candidate) ==
    IF h.log = Undefined
    THEN Threw(h)
    ELSE sendCall(h, [janus |-> "trickle", candidate |-> candidate])

hangupCall(h) ==
    IF h.log = Undefined THEN Threw(h) ELSE sendCall(h, [janus |-> "hangup"])

----------------------------------------------------------------------------
(* The methods, after their await *)

Event(ev, h) == [ev |-> ev, attached |-> h.attached, id |-> h.id]

\* Mutant of attachResume: this.attached = true is missing.
attachResume_noFlag(h, sendResult) ==
    IF sendResult.status = "rejected"
    THEN [h |-> h, events |-> <<>>, result |-> sendResult]
    ELSE IF "data_id" \notin DOMAIN sendResult.value
    THEN [h |-> h, events |-> <<>>, result |-> TypeError]
    ELSE LET h1 == [h EXCEPT !.id = sendResult.value.data_id]
             e1 == <<Event("onAttached", h1)>>
             e2 == Append(e1, Event("emit:attached", h1))
         IN  [h |-> h1, events |-> e2, result |-> sendResult]

\* Mutant of attachResume: this.attached = true is set whatever the outcome
\* (the assignment written before the await).
attachResume_eager(h, sendResult) ==
    IF sendResult.status = "rejected"
    THEN [h |-> [h EXCEPT !.attached = TRUE], events |-> <<>>,
          result |-> sendResult]
    ELSE IF "data_id" \notin DOMAIN sendResult.value
    THEN [h |-> [h EXCEPT !.attached = TRUE], events |-> <<>>,
          result |-> TypeError]
    ELSE LET h1 == [h EXCEPT !.id = sendResult.value.data_id]
             h2 == [h1 EXCEPT !.attached = TRUE]
             e1 == <<Event("onAttached", h2)>>
             e2 == Append(e1, Event("emit:attached", h2))
         IN  [h |-> h2, events |-> e2, result |-> sendResult]

\* Mutant of attachResume: this.onAttached() is called before
\* this.attached = true.
attachResume_hookFirst(h, sendResult) ==
    IF sendResult.status = "rejected"
    THEN [h |-> h, events |-> <<>>, result |-> sendResult]
    ELSE IF "data_id" \notin DOMAIN sendResult.value
    THEN [h |-> h, events |-> <<>>, result |-> TypeError]
    ELSE LET h1 == [h EXCEPT !.id = sendResult.value.data_id]
             e1 == <<Event("onAttached", h1)>>
             h2 == [h1 EXCEPT !.attached = TRUE]
             e2 == Append(e1, Event("emit:attached", h2))
         IN  [h |-> h2, events |-> e2, result |-> sendResult]

\* Mutant of attachResume: this.attached = true is written before
\* this.id = response.data.id, so it survives the TypeError of a reply
\* without data.
attachResume_flagFirst(h, sendResult) ==
    IF sendResult.status = "rejected"
    THEN [h |-> h, events |-> <<>>, result |-> sendResult]
    ELSE IF "data_id" \notin DOMAIN sendResult.value
    THEN [h |-> [h EXCEPT !.attached = TRUE], events |-> <<>>,
          result |-> TypeError]
    ELSE LET h1 == [h EXCEPT !.attached = TRUE]
             h2 == [h1 EXCEPT !.id = sendResult.value.data_id]
             e1 == <<Event("onAttached", h2)>>
             e2 == Append(e1, Event("emit:attached", h2))
         IN  [h |-> h2, events |-> e2, result |-> sendResult]

\* Mutant of attachResume: this.id = this.id || response.data.id, an id
\* already held is kept.
attachResume_keepId(h, sendResult) ==
    IF sendResult.status = "rejected"
    THEN [h |-> h, events |-> <<>>, result |-> sendResult]
    ELSE IF "data_id" \notin DOMAIN sendResult.value
    THEN [h |-> h, events |-> <<>>, result |-> TypeError]
    ELSE LET h1 == [h EXCEPT !.id = IF @ = Null
                                    THEN sendResult.value.data_id ELSE @]
             h2 == [h1 EXCEPT !.attached = TRUE]
             e1 == <<Event("onAttached", h2)>>
             e2 == Append(e1, Event("emit:attached", h2))
         IN  [h |-> h2, events |-> e2, result |-> sendResult]

\* Mutant of attachResume: a failed attach unbinds the session
\* (this.session = null in a catch block).
attachResume_unbind(h, sendResult) ==
    IF sendResult.status = "rejected"
    THEN [h |-> [h EXCEPT !.session = Null], events |-> <<>>,
          result |-> sendResult]
    ELSE IF "data_id" \notin DOMAIN sendResult.value
    THEN [h |-> h, events |-> <<>>, result |-> TypeError]
    ELSE LET h1 == [h EXCEPT !.id = sendResult.value.data_id]
             h2 == [h1 EXCEPT !.attached = TRUE]
             e1 == <<Event("onAttached", h2)>>
             e2 == Append(e1, Event("emit:attached", h2))
         IN  [h |-> h2, events |-> e2, result |-> sendResult]

\* attach(): the code after `await this.session.send(msg)`.
attachResume(h, sendResult) ==
    IF sendResult.status = "rejected"
    THEN [h |-> h, events |-> <<>>, result |-> sendResult]
    ELSE IF "data_id" \notin DOMAIN sendResult.value
    THEN [h |-> h, events |-> <<>>, result |-> TypeError]
    ELSE LET h1 == [h EXCEPT !.id = sendResult.value.data_id]
             h2 == [h1 EXCEPT !.attached = TRUE]
             e1 == <<Event("onAttached", h2)>>
             e2 == Append(e1, Event("emit:attached", h2))
         IN  [h |-> h2, events |-> e2, result |-> sendResult]

\* Mutant of detachResume: this.emit('detached') is called twice.
detachResume_emitTwice(h, sendResult) ==
    IF sendResult.status = "rejected"
    THEN [h |-> h, events |-> <<>>, result |-> sendResult]
    ELSE LET h1 == [h EXCEPT !.attached = FALSE]
             e1 == <<Event("onDetached", h1)>>
             e2 == Append(e1, Event("emit:detached", h1))
             e3 == Append(e2, Event("emit:detached", h1))
         IN  [h |-> h1, events |-> e3, result |-> [status |-> "fulfilled"]]

\* Mutant of detachResume: this.attached = false is reset whatever the outcome
\* (the assignment written before the await).
detachResume_eager(h, sendResult) ==
    IF sendResult.status = "rejected"
    THEN [h |-> [h EXCEPT !.attached = FALSE], events |-> <<>>,
          result |-> sendResult]
    ELSE LET h1 == [h EXCEPT !.attached = FALSE]
             e1 == <<Event("onDetached", h1)>>
             e2 == Append(e1, Event("emit:detached", h1))
         IN  [h |-> h1, events |-> e2, result |-> [status |-> "fulfilled"]]

\* Mutant of detachResume: the code after the await runs in a finally block,
\* whatever the outcome of the request.
detachResume_finally(h, sendResult) ==
    LET h1 == [h EXCEPT !.attached = FALSE]
        e1 == <<Event("onDetached", h1)>>
        e2 == Append(e1, Event("emit:detached", h1))
    IN  [h |-> h1, events |-> e2,
         result |-> IF sendResult.status = "rejected"
                    THEN sendResult
                    ELSE [status |-> "fulfilled"]]

\* Mutant of detachResume: a fulfilled detach also forgets the id
\* (this.id = null).
detachResume_clearId(h, sendResult) ==
    IF sendResult.status = "rejected"
    THEN [h |-> h, events |-> <<>>, result |-> sendResult]
    ELSE LET h1 == [h EXCEPT !.attached = FALSE, !.id = Null]
             e1 == <<Event("onDetached", h1)>>
             e2 == Append(e1, Event("emit:detached", h1))
         IN  [h |-> h1, events |-> e2, result |-> [status |-> "fulfilled"]]

\* detach(): the code after `await this.send({ janus: 'detach' })`.
detachResume(h, sendResult) ==
    IF sendResult.status = "rejected"
    THEN [h |-> h, events |-> <<>>, result |-> sendResult]
    ELSE LET h1 == [h EXCEPT !.attached = FALSE]
             e1 == <<Event("onDetached", h1)>>
             e2 == Append(e1, Event("emit:detached", h1))
         IN  [h |-> h1, events |-> e2, result |-> [status |-> "fulfilled"]]

\* Mutant of sendResume: the method returns a promise of its own that it
\* settles only when the request is fulfilled; a rejection is swallowed and
\* the caller stays pending.
sendResume_swallow(h, sendResult) ==
    [h |-> h, events |-> <<>>,
     result |-> IF sendResult.status = "rejected"
                THEN [status |-> "pending"]
                ELSE sendResult]

\* send(), sendMessage(), sendJsep(), sendTrickle(), hangup():
\* `return this.session.send(...)` settles as that promise does.
sendResume(h, sendResult) == [h |-> h, events |-> <<>>, result |-> sendResult]

Resume(op, h, sendResult) ==
    CASE op = "attach" -> attachResume(h, sendResult)
      [] op = "detach" -> detachResume(h, sendResult)
      [] OTHER -> sendResume(h, sendResult)

----------------------------------------------------------------------------
(* Session: send, the transaction registry, the gateway *)

Replies ==
    {[janus |-> "success", data_id |-> d] : d \in HandleIds}
    \cup {[janus |-> "success"], [janus |-> "error"]}

\* The registry's resolve: an error reply rejects with a ProtocolError.
resolve(reply) ==
    IF reply.janus = "error"
    THEN [status |-> "rejected", error |-> "ProtocolError", payload |-> reply]
    ELSE [status |-> "fulfilled", value |-> reply]

TimeoutError == [status |-> "rejected", error |-> "TimeoutError"]
ConnectionClosed == [status |-> "rejected", error |-> "ConnectionClosed"]

\* Session.send: a fresh transaction identifier, one registry entry.
SessionSend(s, op) ==
    /\ txCounter' = txCounter + 1
    /\ transactions' =
         [transactions EXCEPT ![s] = @ \cup {[tx |-> txCounter + 1, op |-> op]}]

\* Attach bookkeeping: the session registers a handle under its id when the
\* handle completes attach, and removes it when the handle detaches.
Register(table, hid) ==
    {e \in table : e.id # hid} \cup {[id |-> hid, handle |-> "this"]}

Deregister(table, hid) == table \ {[id |-> hid, handle |-> "this"]}

\* The table of a session after the calls in `settled` completed on a handle
\* whose id is then `hid`.
Bookkeeping(table, settled, hid) ==
    LET done(op) == \E r \in settled : r.op = op /\ r.result.status = "fulfilled"
        t1 == IF done("attach") THEN Register(table, hid) ELSE table
    IN  IF done("detach") THEN Deregister(t1, hid) ELSE t1

\* Mutant of Route: a push is forwarded to every attached handle.
Route_broadcast(table, sender) ==
    LET S == {e.handle : e \in table} IN
    IF S = {}
    THEN [received |-> <<>>, sessionEvents |-> <<sender>>]
    ELSE [received |-> IF S = {"this", "other"} THEN <<"other", "this">>
                       ELSE <<CHOOSE x \in S : TRUE>>,
          sessionEvents |-> <<>>]

\* Classification of an incoming message that matches no pending transaction:
\* to the receive() of the handle registered under its sender, else to the
\* session-level subscribers.
Route(table, sender) ==
    IF \E e \in table : e.id = sender
    THEN [received |-> <<(CHOOSE e \in table : e.id = sender).handle>>,
          sessionEvents |-> <<>>]
    ELSE [received |-> <<>>, sessionEvents |-> <<sender>>]

----------------------------------------------------------------------------
(* History of the calls, kept for the properties *)

HistCall(h, op, arg) ==
    IF op = "attach" THEN [h EXCEPT !.attachSession = arg.session] ELSE h

\* The latest attach or detach request the session fulfilled (for an attach,
\* by a reply that carries data.id), and the id of the latest such attach reply.
HistSettle(h, settled) ==
    LET A == {r \in settled : r.op = "attach" /\ r.sendResult.status = "fulfilled"
                                 /\ "data_id" \in DOMAIN r.sendResult.value}
        D == {r \in settled : r.op = "detach" /\ r.sendResult.status = "fulfilled"}
    IN  IF A # {}
        THEN [h EXCEPT !.fulfilled = "attach",
                       !.attachReplyId = (CHOOSE r \in A : TRUE).sendResult.value.data_id]
        ELSE IF D # {} THEN [h EXCEPT !.fulfilled = "detach"] ELSE h

----------------------------------------------------------------------------
\* receive(msg): this.log.debug(...) and nothing else.
receiveCall(h, msg) ==
    IF h.log = Undefined THEN TypeError ELSE [status |-> "fulfilled"]

Init ==
    /\ session = properties.session
    /\ id = properties.id
    /\ attached = properties.attached
    /\ logger \in Loggers
    /\ log \in Logs
    /\ transactions = [s \in Sessions |-> {}]
    /\ txCounter = 0
    /\ handles = [s \in Sessions |-> {[id |-> OtherId, handle |-> "other"]}]
    /\ ncalls = 0
    /\ hist = [attachSession |-> Null, fulfilled |-> "none", attachReplyId |-> Null]
    /\ last = [step |-> "init", op |-> "init", arg |-> [none |-> Undefined],
               before |-> [session |-> Null, id |-> Null, attached |-> FALSE],
               handed |-> <<>>, settled |-> {}, events |-> <<>>]

Before == [session |-> session, id |-> id, attached |-> attached]

\* A method call: its synchronous part.
Invoke(op, arg, eff) ==
    /\ ncalls < MaxCalls
    /\ ncalls' = ncalls + 1
    /\ session' = eff.session
    /\ UNCHANGED <<id, attached, logger, log, handles>>
    /\ hist' = HistCall(hist, op, arg)
    /\ IF eff.thrown
       THEN UNCHANGED <<transactions, txCounter>>
       ELSE SessionSend(eff.handed[1].session, op)
    /\ last' = [step |-> "call", op |-> op, arg |-> arg, before |-> Before,
                handed |-> eff.handed,
                settled |-> IF eff.thrown
                            THEN {[tx |-> 0, op |-> op, sendResult |-> NotCalled,
                                   result |-> TypeError]}
                            ELSE {},
                events |-> <<>>]

attach(s) == Invoke("attach", [session |-> s], attachCall(this, s))

detach == Invoke("detach", [none |-> Undefined], detachCall(this))

send(obj) == Invoke("send", [obj |-> obj], sendCall(this, obj))

sendMessage(body, jsep) ==
    Invoke("sendMessage", [body |-> body, jsep |-> jsep],
           sendMessageCall(this, body, jsep))

sendJsep(jsep) == Invoke("sendJsep", [jsep |-> jsep], sendJsepCall(this, jsep))

sendTrickle(candidate) ==
    Invoke("sendTrickle", [candidate |-> candidate],
           sendTrickleCall(this, candidate))

hangup == Invoke("hangup", [none |-> Undefined], hangupCall(this))

\* The promises of the transactions `txs` (in the order they were registered)
\* settle with `sendResult`; each awaiting method resumes.
RECURSIVE SettleAll(_, _, _)
SettleAll(h, txs, sendResult) ==
    IF txs = {}
    THEN [h |-> h, events |-> <<>>, settled |-> {}]
    ELSE LET t == CHOOSE x \in txs : \A y \in txs : x.tx <= y.tx
             r == Resume(t.op, h, sendResult)
             rest == SettleAll(r.h, txs \ {t}, sendResult)
         IN  [h |-> rest.h,
              events |-> r.events \o rest.events,
              settled |-> {[tx |-> t.tx, op |-> t.op, sendResult |-> sendResult,
                            result |-> r.result]} \cup rest.settled]

Settle(step, s, txs, sendResult) ==
    LET r == SettleAll(this, txs, sendResult) IN
    /\ transactions' = [transactions EXCEPT ![s] = @ \ txs]
    /\ session' = r.h.session
    /\ id' = r.h.id
    /\ attached' = r.h.attached
    /\ UNCHANGED <<logger, log, txCounter, ncalls>>
    /\ handles' = [handles EXCEPT ![s] = Bookkeeping(@, r.settled, r.h.id)]
    /\ hist' = HistSettle(hist, r.settled)
    /\ last' = [step |-> "settle", op |-> step, arg |-> [session |-> s],
                before |-> Before, handed |-> <<>>,
                settled |-> r.settled, events |-> r.events]

\* The gateway's reply to a pending transaction arrives.
Deliver(s, t, reply) ==
    /\ t \in transactions[s]
    /\ Settle("deliver", s, {t}, resolve(reply))

\* The timer of a pending transaction fires.
Timeout(s, t) ==
    /\ t \in transactions[s]
    /\ Settle("timeout", s, {t}, TimeoutError)

\* The session is torn down: every pending transaction is rejected.
Close(s) ==
    /\ transactions[s] # {}
    /\ Settle("close", s, transactions[s], ConnectionClosed)

\* The gateway pushes a message with a sender and no pending transaction.
Push(s, sender) ==
    LET to == Route(handles[s], sender)
        msg == [janus |-> "event", sender |-> sender]
    IN
    /\ UNCHANGED <<session, id, attached, logger, log, transactions, txCounter,
                   handles, ncalls, hist>>
    /\ last' = [step |-> "push", op |-> "push",
                arg |-> [session |-> s, sender |-> sender],
                before |-> Before, handed |-> <<>>, settled |-> {},
                events |-> <<>>,
                received |-> to.received,
                sessionEvents |-> to.sessionEvents,
                receiveResult |-> IF \E i \in 1..Len(to.received) :
                                        to.received[i] = "this"
                                     THEN receiveCall(this, msg)
                                     ELSE NotCalled]

Next ==
    \/ \E s \in Sessions : attach(s)
    \/ detach
    \/ \E obj \in Objs : send(obj)
    \/ \E body \in Bodies, jsep \in Jseps : sendMessage(body, jsep)
    \/ \E jsep \in Jseps : sendJsep(jsep)
    \/ \E candidate \in Candidates : sendTrickle(candidate)
    \/ hangup
    \/ \E s \in Sessions : \E t \in transactions[s] : \E reply \in Replies :
          Deliver(s, t, reply)
    \/ \E s \in Sessions : \E t \in transactions[s] : Timeout(s, t)
    \/ \E s \in Sessions : Close(s)

Spec == Init /\ [][Next]_vars

\* A reply arrives for a transaction that is no longer pending (it timed out,
\* was answered before, or the session was closed): it is dropped.
LateReply(s, n) ==
    /\ n \in 1..txCounter
    /\ \A t \in transactions[s] : t.tx # n
    /\ UNCHANGED <<session, id, attached, logger, log, transactions, txCounter,
                   handles, ncalls, hist>>
    /\ last' = [step |-> "drop", op |-> "drop",
                arg |-> [session |-> s, tx |-> n], before |-> Before,
                handed |-> <<>>, settled |-> {}, events |-> <<>>]

\* The calls and every terminal event of their requests, with the timers of
\* the pending transactions running: while a transaction is pending a timer
\* eventually fires.
NextSettling ==
    \/ Next /\ ncalls' <= MaxSettlingCalls
    \/ \E s \in Sessions : \E n \in 1..MaxCalls : LateReply(s, n)

FairSpec ==
    /\ Init
    /\ [][NextSettling]_vars
    /\ WF_vars(\E s \in Sessions : \E t \in transactions[s] : Timeout(s, t))

\* Attach bookkeeping and push routing: attach, detach, the settling of their
\* requests, and the pushes of the gateway.
NextRouting ==
    \/ \E s \in Sessions : attach(s)
    \/ detach
    \/ \E s \in Sessions : \E t \in transactions[s] : \E reply \in Replies :
          Deliver(s, t, reply)
    \/ \E s \in Sessions : \E t \in transactions[s] : Timeout(s, t)
    \/ \E s \in Sessions : Close(s)
    \/ \E s \in Sessions : \E sender \in HandleIds \cup {OtherId} : Push(s, sender)

SpecRouting == Init /\ [][NextRouting]_vars

----------------------------------------------------------------------------
(* Properties *)

\* How often the hook or notification `ev` ran in the most recent step.
CountEv(ev) ==
    Cardinality({i \in 1..Len(last.events) : last.events[i].ev = ev})

IsCall(op) == last.step = "call" /\ last.op = op

AttachMsg == [janus |-> "attach", plugin |-> properties.name]

\* The attach calls whose Session.send was fulfilled by a reply carrying data.id.
AttachSucceeded ==
    {r \in last.settled :
        /\ r.op = "attach"
        /\ r.sendResult.status = "fulfilled"
        /\ "data_id" \in DOMAIN r.sendResult.value}

\* The transactions of `op` in flight, over all sessions.
InFlight(op) == {t \in UNION {transactions[s] : s \in Sessions} : t.op = op}

\* C1: attach(session) hands Session.send the request {janus:'attach',
\* plugin:name}; when that request is answered by a success reply carrying
\* data.id = X, then as the call's promise fulfills attached is true and id is
\* X, the promise is fulfilled with that reply, and onAttached has run exactly
\* once and 'attached' has been emitted exactly once for that call (and
\* neither runs in any step that fulfills no attach).
C1_AttachSuccess ==
    /\ IsCall("attach") =>
          last.handed = <<[session |-> last.arg.session, msg |-> AttachMsg]>>
    /\ \A r \in AttachSucceeded :
          /\ attached = TRUE
          /\ id = r.sendResult.value.data_id
          /\ r.result = r.sendResult
    /\ CountEv("onAttached") = Cardinality(AttachSucceeded)
    /\ CountEv("emit:attached") = Cardinality(AttachSucceeded)
    /\ Cardinality(AttachSucceeded) <= 1

\* C1 witness: a fresh handle's attach was answered with success, data.id h1.
C1_Witness ==
    /\ last.step = "settle"
    /\ last.before.id = Null /\ ~last.before.attached
    /\ \E r \in AttachSucceeded : r.sendResult.value.data_id = "h1"
    /\ attached /\ id = "h1"
    /\ CountEv("emit:attached") = 1

\* C2: when the Session.send issued by attach() rejects (error reply, timeout
\* or closed session), attach() rejects with that error and the handle is left
\* as it was - a fresh handle stays with attached false and id null - and
\* neither onAttached nor the 'attached' notification runs.
C2_AttachRejected ==
    \A r \in last.settled :
        (r.op = "attach" /\ r.sendResult.status = "rejected") =>
            /\ r.result = r.sendResult
            /\ attached = last.before.attached
            /\ id = last.before.id
            /\ CountEv("onAttached") = 0
            /\ CountEv("emit:attached") = 0

\* C2 witness: the attach of a fresh handle was rejected by an error reply.
C2_Witness ==
    /\ last.step = "settle"
    /\ last.before.id = Null /\ ~last.before.attached
    /\ \E r \in last.settled :
          /\ r.op = "attach"
          /\ r.result.status = "rejected"
          /\ r.result.error = "ProtocolError"
    /\ ~attached /\ id = Null

\* C3: detach() on an attached handle hands Session.send one detach request
\* stamped with the handle's id; when a detach request is answered with
\* success the handle ends with attached false, and onDetached has run exactly
\* once and 'detached' has been emitted exactly once for that call.
C3_DetachSuccess ==
    /\ (IsCall("detach") /\ last.before.attached) =>
          last.handed = <<[session |-> last.before.session,
                           msg |-> [janus |-> "detach",
                                    handle_id |-> last.before.id]]>>
    /\ \A r \in last.settled :
          (r.op = "detach" /\ r.sendResult.status = "fulfilled") =>
              /\ attached = FALSE
              /\ r.result.status = "fulfilled"
              /\ CountEv("onDetached") = 1
              /\ CountEv("emit:detached") = 1
    /\ (\A r \in last.settled :
          ~(r.op = "detach" /\ r.sendResult.status = "fulfilled")) =>
              (CountEv("onDetached") = 0 /\ CountEv("emit:detached") = 0)

\* C3 witness: the detach of an attached handle was answered with success.
C3_Witness ==
    /\ last.step = "settle"
    /\ last.before.attached /\ last.before.id = "h1"
    /\ \E r \in last.settled :
          r.op = "detach" /\ r.sendResult.status = "fulfilled"
    /\ ~attached
    /\ CountEv("emit:detached") = 1

TrafficOps == {"send", "sendMessage", "sendJsep", "sendTrickle", "hangup", "detach"}

C7_Original ==
    log = Undefined =>
        /\ (last.step = "call" /\ (last.op = "attach" \/ last.before.attached)) =>
              (last.settled = {} /\ Len(last.handed) = 1)
        /\ \A r \in last.settled :
              (last.step = "settle"
                 /\ ~(r.op = "attach" /\ r.sendResult.status = "fulfilled"
                        /\ "data_id" \notin DOMAIN r.sendResult.value)) =>
                  /\ r.result.status = "rejected" => r.result = r.sendResult
                  /\ r.sendResult.status = "fulfilled" =>
                        r.result.status = "fulfilled"

\* C8: send(obj) on a handle that has a session hands exactly one message to
\* that session's send: obj with handle_id set to the handle's current id,
\* every other field unchanged, a handle_id of obj overridden; the promise
\* returned settles exactly as the Session.send promise does.
C8_SendStamps ==
    /\ (IsCall("send") /\ last.before.session # Null) =>
          /\ Len(last.handed) = 1
          /\ last.handed[1].session = last.before.session
          /\ LET m == last.handed[1].msg
                 obj == last.arg.obj
             IN  /\ DOMAIN m = (DOMAIN obj) \cup {"handle_id"}
                 /\ m.handle_id = last.before.id
                 /\ \A k \in (DOMAIN obj) \ {"handle_id"} : m[k] = obj[k]
          /\ last.settled = {}
    /\ \A r \in last.settled :
          (last.step = "settle" /\ r.op = "send") => r.result = r.sendResult

\* C8 witness: an obj carrying handle_id h9 went out stamped with the
\* handle's id h1.
C8_Witness ==
    /\ IsCall("send")
    /\ last.before.id = "h1"
    /\ "handle_id" \in DOMAIN last.arg.obj
    /\ last.arg.obj.handle_id = "h9"
    /\ Len(last.handed) = 1
    /\ last.handed[1].msg.handle_id = "h1"

\* C9 as stated: sendMessage(body, jsep) on an attached handle created by init
\* (no `log`) hands exactly one message {janus:'message', body, handle_id: id}
\* to Session.send, with a jsep field iff a jsep was supplied.
C9_Original ==
    (IsCall("sendMessage") /\ last.before.attached /\ log = Undefined) =>
        /\ Len(last.handed) = 1
        /\ last.handed[1].msg.janus = "message"
        /\ last.handed[1].msg.handle_id = last.before.id
        /\ ("jsep" \in DOMAIN last.handed[1].msg) <=> (last.arg.jsep # Undefined)
        /\ last.settled = {}

C11_Original ==
    /\ (IsCall("hangup") /\ last.before.attached) =>
          /\ last.handed = <<[session |-> last.before.session,
                              msg |-> [janus |-> "hangup",
                                       handle_id |-> last.before.id]]>>
          /\ attached /\ id = last.before.id /\ session = last.before.session
    /\ (last.step = "settle" /\ \A r \in last.settled : r.op = "hangup") =>
          /\ attached = last.before.attached
          /\ id = last.before.id
          /\ session = last.before.session
          /\ last.events = <<>>

\* C15: a fulfilled attach stores the id and sets attached before onAttached
\* runs, and emits 'attached' after onAttached; a fulfilled detach clears
\* attached before onDetached runs and emits 'detached' after it: the hook
\* and the subscribers observe the new attachment state, in that order.
C15_EffectOrder ==
    /\ \A r \in AttachSucceeded :
          last.events =
              << [ev |-> "onAttached", attached |-> TRUE,
                  id |-> r.sendResult.value.data_id],
                 [ev |-> "emit:attached", attached |-> TRUE,
                  id |-> r.sendResult.value.data_id] >>
    /\ \A r \in last.settled :
          (r.op = "detach" /\ r.sendResult.status = "fulfilled") =>
              last.events =
                  << [ev |-> "onDetached", attached |-> FALSE,
                      id |-> last.before.id],
                     [ev |-> "emit:detached", attached |-> FALSE,
                      id |-> last.before.id] >>

\* C15 witness: a fulfilled attach of an unattached handle ran onAttached and
\* then emitted 'attached', both seeing attached = true.
C15_Witness ==
    /\ AttachSucceeded # {}
    /\ ~last.before.attached
    /\ Len(last.events) = 2
    /\ last.events[1].ev = "onAttached" /\ last.events[1].attached
    /\ last.events[2].ev = "emit:attached" /\ last.events[2].attached

\* C16: when the Session.send issued by detach() rejects (error reply, timeout
\* or closed session), detach() rejects with that error and the handle is
\* unchanged: attached and id keep their values, onDetached does not run and
\* 'detached' is not emitted.
C16_DetachRejected ==
    \A r \in last.settled :
        (r.op = "detach" /\ r.sendResult.status = "rejected") =>
            /\ r.result = r.sendResult
            /\ attached = last.before.attached
            /\ id = last.before.id
            /\ session = last.before.session
            /\ CountEv("onDetached") = 0
            /\ CountEv("emit:detached") = 0

\* C16 witness: the detach of an attached handle timed out and the handle is
\* still attached.
C16_Witness ==
    /\ last.step = "settle"
    /\ last.before.attached
    /\ \E r \in last.settled :
          r.op = "detach" /\ r.result = TimeoutError
    /\ attached /\ id = last.before.id

\* C17: in every reachable state attached implies that id is not null but an
\* id assigned by the gateway; and a success reply without a data object
\* makes attach() reject and leaves attached and id as they were (false and
\* null on a fresh handle).
C17_AttachedHasId ==
    /\ attached => (id # Null /\ id \in HandleIds)
    /\ \A r \in last.settled :
          (r.op = "attach" /\ r.sendResult.status = "fulfilled"
             /\ "data_id" \notin DOMAIN r.sendResult.value) =>
              /\ attached = last.before.attached
              /\ id = last.before.id
              /\ r.result = TypeError

\* C17 witness: a fresh handle's attach was answered by a success reply
\* without data and the handle is not attached.
C17_Witness ==
    /\ last.step = "settle"
    /\ ~last.before.attached /\ last.before.id = Null
    /\ \E r \in last.settled :
          /\ r.op = "attach"
          /\ r.sendResult.status = "fulfilled"
          /\ "data_id" \notin DOMAIN r.sendResult.value
    /\ ~attached /\ id = Null

\* The entry of this handle under `hid` in a session's table.
Entry(hid) == [id |-> hid, handle |-> "this"]

DetachFulfilled ==
    {r \in last.settled : r.op = "detach" /\ r.sendResult.status = "fulfilled"}

C13_PushRouting ==
    last.step = "push" =>
        /\ \A e \in handles[last.arg.session] :
              e.id = last.arg.sender =>
                  /\ last.received = <<e.handle>>
                  /\ last.sessionEvents = <<>>
        /\ (last.receiveResult # NotCalled) <=>
              Entry(last.arg.sender) \in handles[last.arg.session]
        /\ attached = last.before.attached
        /\ id = last.before.id
        /\ session = last.before.session

\* C13 witness: a push with the handle's id as sender reached the handle's
\* receive() only, in a session where another handle is attached too.
C13_Witness ==
    /\ last.step = "push"
    /\ attached /\ last.arg.sender = id
    /\ \E e \in handles[last.arg.session] : e.handle = "other"
    /\ last.received = <<"this">>
    /\ last.sessionEvents = <<>>

\* C18 as stated: detach() never modifies id or session: after a successful
\* detach attached is false and id is still the id assigned at attach, and a
\* later send(), sendTrickle(), hangup() or detach() on the detached handle
\* hands Session.send a message stamped with that stale handle_id.
C18_Original ==
    /\ \A r \in last.settled :
          r.op = "detach" =>
              (id = last.before.id /\ session = last.before.session)
    /\ DetachFulfilled # {} => ~attached
    /\ (last.step = "call"
          /\ last.op \in {"send", "sendTrickle", "hangup", "detach"}
          /\ ~last.before.attached /\ last.before.id # Null) =>
              /\ Len(last.handed) = 1
              /\ last.handed[1].msg.handle_id = last.before.id

\* C19: attach(session) rebinds this.session before its request is sent and
\* nothing restores it: the handle's session is always the session passed to
\* the most recent attach() call, and every message the handle issues is
\* handed to that session - the attach request itself included, and also
\* when that attach is pending or was rejected, or the handle is attached on
\* a session bound earlier.
C19_SessionRebound ==
    /\ session = hist.attachSession
    /\ \A i \in 1..Len(last.handed) :
          last.handed[i].session = hist.attachSession
    /\ IsCall("attach") =>
          (Len(last.handed) = 1 /\ last.handed[1].session = last.arg.session)

\* C19 witness: a handle attached on s1 (registered there under its id) sent
\* a message to s2, the session of a later attach() that is still pending.
C19_Witness ==
    /\ IsCall("send")
    /\ attached /\ Entry(id) \in handles["s1"]
    /\ InFlight("attach") # {}
    /\ hist.attachSession = "s2"
    /\ Len(last.handed) = 1
    /\ last.handed[1].session = "s2"
    /\ last.handed[1].msg.handle_id = id

\* C20: with overlapping attach()/detach() calls the handle's state follows
\* the order in which the requests are fulfilled, not the order of the calls:
\* attached is true iff the request fulfilled most recently was an attach, id
\* is the id of the attach reply fulfilled most recently, and every fulfilled
\* attach or detach runs its hook and its notification once, so that each
\* further fulfilled attach emits 'attached' again.
C20_ReplyOrderDecides ==
    /\ attached <=> hist.fulfilled = "attach"
    /\ id = hist.attachReplyId
    /\ CountEv("onAttached") = Cardinality(AttachSucceeded)
    /\ CountEv("emit:attached") = Cardinality(AttachSucceeded)
    /\ CountEv("onDetached") = Cardinality(DetachFulfilled)
    /\ CountEv("emit:detached") = Cardinality(DetachFulfilled)

\* C20 witness: of two overlapping attach() calls the later one was fulfilled
\* first; the reply to the first call then arrives, decides the id and emits
\* 'attached' a second time.
C20_Witness ==
    /\ \E r \in AttachSucceeded : r.tx = 1 /\ id = r.sendResult.value.data_id
    /\ last.before.attached
    /\ last.before.id # id
    /\ attached
    /\ CountEv("emit:attached") = 1

\* The request with transaction identifier n is pending.
Pending(n) == \E s \in Sessions : \E t \in transactions[s] : t.tx = n

AnyPending == \E s \in Sessions : transactions[s] # {}

====
